---------------------------- MODULE Spec2Model ----------------------------
(***************************************************************************)
(* Model of colortransfer.cpp: the statistical colour transfer             *)
(* (colorTransfer), the trackbar callback (updateTransfer), the key        *)
(* handler (changeMode) and the driver (main).                             *)
(*                                                                         *)
(* Arithmetic.  The floating point planes are modelled by exact numbers    *)
(* together with the IEEE special values NaN, +Inf and -Inf; rounding      *)
(* error of finite operations is not modelled.  A finite number is         *)
(* a + b*K, a and b rational, where K = srcDevs[c] / dstDevs[c] is the     *)
(* scale of the channel the number belongs to; K is kept as the root of    *)
(* the rational K^2, so a standard deviation is kept as the root of its    *)
(* variance.  Logarithms are taken to base two, which multiplies every     *)
(* log-space value by the same constant and leaves the transfer, which is  *)
(* homogeneous in them, unchanged; samples are therefore powers of two (or *)
(* zero).                                                                  *)
(***************************************************************************)
EXTENDS Integers, Sequences, FiniteSets, TLC

VARIABLES pc, argc, images, trackbars, currentMode, keypress, invoked,
          locals, lib, outputFile, exitStatus

vars == <<pc, argc, images, trackbars, currentMode, keypress, invoked,
          locals, lib, outputFile, exitStatus>>

(***************************************************************************)
(* Rationals <<n, d>>, d > 0, in lowest terms.                             *)
(***************************************************************************)
Abs(n) == IF n < 0 THEN -n ELSE n

RECURSIVE GCD(_, _)
GCD(m, n) == IF n = 0 THEN m ELSE GCD(n, m % n)

Reduce(n, d, g) == <<n \div g, d \div g>>

Rat(n, d) ==
  IF d < 0 THEN Reduce(-n, -d, GCD(Abs(n), -d)) ELSE Reduce(n, d, GCD(Abs(n), d))

R0 == Rat(0, 1)
R1 == Rat(1, 1)
RInt(n) == <<n, 1>>

\* x + y over the common denominator l
AddOver(x, y, l) == Rat(x[1] * (l \div x[2]) + y[1] * (l \div y[2]), l)

RAdd(x, y) ==
  IF x[2] = 1 /\ y[2] = 1 THEN <<x[1] + y[1], 1>>
  ELSE AddOver(x, y, (x[2] \div GCD(x[2], y[2])) * y[2])

RNeg(x) == <<-x[1], x[2]>>
RSub(x, y) == RAdd(x, RNeg(y))

RMul(x, y) ==
  IF x[2] = 1 /\ y[2] = 1 THEN <<x[1] * y[1], 1>>
  ELSE Rat(x[1] * y[1], x[2] * y[2])

\* y # 0
RDiv(x, y) == RMul(x, IF y[1] < 0 THEN <<-y[2], -y[1]>> ELSE <<y[2], y[1]>>)

RSign(x) == IF x[1] > 0 THEN 1 ELSE IF x[1] < 0 THEN -1 ELSE 0
RLe(x, y) == RSign(RSub(x, y)) <= 0


(***************************************************************************)
(* Floating point values: [k, a, b] with k one of "fin", "nan", "pinf",    *)
(* "ninf"; a finite value is a + b*K.                                      *)
(***************************************************************************)
Fin(a, b) == [k |-> "fin", a |-> a, b |-> b]
NaN == [k |-> "nan", a |-> R0, b |-> R0]
PInf == [k |-> "pinf", a |-> R0, b |-> R0]
NInf == [k |-> "ninf", a |-> R0, b |-> R0]
FInt(n) == Fin(RInt(n), R0)

IsFinite(x) == x.k = "fin"

FNeg(x) ==
  CASE x.k = "fin" -> Fin(RNeg(x.a), RNeg(x.b))
    [] x.k = "pinf" -> NInf
    [] x.k = "ninf" -> PInf
    [] OTHER -> NaN

FAdd(x, y) ==
  CASE x.k = "nan" \/ y.k = "nan" -> NaN
    [] x.k = "fin" /\ y.k = "fin" ->
         Fin(RAdd(x.a, y.a),
             IF x.b = R0 THEN y.b ELSE IF y.b = R0 THEN x.b ELSE RAdd(x.b, y.b))
    [] x.k = "fin" -> y
    [] y.k = "fin" -> x
    [] x.k = y.k -> x
    [] OTHER -> NaN

FSub(x, y) == FAdd(x, FNeg(y))

\* product of the rational scalar r and the value x
FScale(r, x) ==
  CASE x.k = "nan" -> NaN
    [] x.k = "fin" -> Fin(RMul(r, x.a), IF x.b = R0 THEN R0 ELSE RMul(r, x.b))
    [] RSign(r) = 0 -> NaN
    [] RSign(r) > 0 -> x
    [] OTHER -> FNeg(x)

\* square of a value that holds no K part (the log planes before the transfer)
FSq(x) ==
  CASE x.k = "nan" -> NaN
    [] x.k = "fin" -> Fin(RMul(x.a, x.a), R0)
    [] OTHER -> PInf

RECURSIVE FSum(_)
FSum(s) == IF s = <<>> THEN FInt(0) ELSE FAdd(Head(s), FSum(Tail(s)))

(***************************************************************************)
(* Roots: [k, sq], the non-negative root of the rational sq, or NaN/+Inf.  *)
(***************************************************************************)
Root(q) == [k |-> "fin", sq |-> q]
RootNaN == [k |-> "nan", sq |-> R0]
RootInf == [k |-> "pinf", sq |-> R0]

\* sqrt of a value that holds no K part
FSqrt(x) ==
  CASE x.k = "fin" /\ RSign(x.a) >= 0 -> Root(x.a)
    [] x.k = "pinf" -> RootInf
    [] OTHER -> RootNaN

\* s / d in double arithmetic: x/0 is +Inf for x > 0 and NaN for x = 0
RootDiv(s, d) ==
  CASE s.k = "nan" \/ d.k = "nan" -> RootNaN
    [] s.k = "pinf" /\ d.k = "pinf" -> RootNaN
    [] s.k = "pinf" -> RootInf
    [] d.k = "pinf" -> Root(R0)
    [] RSign(d.sq) = 0 /\ RSign(s.sq) = 0 -> RootNaN
    [] RSign(d.sq) = 0 -> RootInf
    [] OTHER -> Root(RDiv(s.sq, d.sq))

\* product of the scale K and a value x that holds no K part
KMul(K, x) ==
  CASE K.k = "nan" \/ x.k = "nan" -> NaN
    [] K.k = "fin" /\ x.k = "fin" ->
         IF RSign(K.sq) = 0 THEN FInt(0) ELSE Fin(R0, x.a)
    [] K.k = "fin" -> IF RSign(K.sq) = 0 THEN NaN ELSE x
    [] x.k = "fin" ->
         IF RSign(x.a) = 0 THEN NaN ELSE IF RSign(x.a) > 0 THEN PInf ELSE NInf
    [] OTHER -> x

\* sign of d + b*K for rationals d and b, sd and sb the signs of d and b*K
SignSum(d, sd, b, sb, kap) ==
  CASE sb = 0 -> sd
    [] sd = 0 -> sb
    [] sd = sb -> sd
    [] OTHER -> sd * RSign(RSub(RMul(d, d), RMul(RMul(b, b), kap)))

SignOf(d, b, kap) ==
  SignSum(d, RSign(d), b, IF RSign(kap) = 0 THEN 0 ELSE RSign(b), kap)

\* equality and order of values within one channel
FEq(x, y, kap) ==
  /\ x.k = y.k
  /\ x.k # "nan"
  /\ x.k = "fin" => SignOf(RSub(x.a, y.a), RSub(x.b, y.b), kap) = 0

FLe(x, y, kap) ==
  CASE x.k = "nan" \/ y.k = "nan" -> FALSE
    [] x.k = "fin" /\ y.k = "fin" ->
         SignOf(RSub(x.a, y.a), RSub(x.b, y.b), kap) <= 0
    [] x.k = "ninf" \/ y.k = "pinf" -> TRUE
    [] OTHER -> FALSE

(***************************************************************************)
(* Data.  An image is [channels, pixels]: pixels is the row-major sequence *)
(* of its pixels, each a tuple of 8-bit samples in B, G, R order; the      *)
(* empty Mat has no channels and no pixels.                                *)
(***************************************************************************)
Modes == {"NONE", "LAB", "RGB", "HSV", "XYZ"}

EmptyMat == [channels |-> 0, pixels |-> <<>>]

Mat3(px) == [channels |-> 3, pixels |-> px]

Channels == 1..3

\* behaviour the source leaves to the OpenCV build
\*   logOfZero: cv::log of a zero sample, "ninf" (-Inf) or "finite"
\*              (a large negative number)
Libs == [logOfZero : {"ninf", "finite"}]

\* the large negative number of the "finite" outcome, in log-space units
LogOfZeroFinite == FInt(-16)

(***************************************************************************)
(* colorTransfer, lines 41-120.                                            *)
(***************************************************************************)
ForwardConversion(mode) ==
  CASE mode = "LAB" -> "CV_BGR2Lab"
    [] mode = "RGB" -> "CV_BGR2RGB"
    [] mode = "HSV" -> "CV_BGR2HSV"
    [] mode = "XYZ" -> "CV_BGR2XYZ"
    [] OTHER -> "CV_BGR2Lab"

\* fault variant: the default case keeps the backward code of RGB
BackwardConversion_DefaultRGB(mode) ==
  CASE mode = "LAB" -> "CV_Lab2BGR"
    [] mode = "RGB" -> "CV_RGB2BGR"
    [] mode = "HSV" -> "CV_HSV2BGR"
    [] mode = "XYZ" -> "CV_XYZ2BGR"
    [] OTHER -> "CV_RGB2BGR"

BackwardConversion(mode) ==
  CASE mode = "LAB" -> "CV_Lab2BGR"
    [] mode = "RGB" -> "CV_RGB2BGR"
    [] mode = "HSV" -> "CV_HSV2BGR"
    [] mode = "XYZ" -> "CV_XYZ2BGR"
    [] OTHER -> "CV_Lab2BGR"

\* cvtColor on one pixel.  CV_BGR2RGB and CV_RGB2BGR reverse the channel
\* order.  The colorimetric transforms of OpenCV are not part of the
\* repository: each is kept as a fixed per-pixel map of its own, the
\* backward code undoing the forward one of the same colorspace and of no
\* other.
CvtPixel(p, code) ==
  CASE code \in {"CV_BGR2RGB", "CV_RGB2BGR"} -> <<p[3], p[2], p[1]>>
    [] code = "CV_BGR2Lab" -> <<p[2], p[3], p[1]>>
    [] code = "CV_Lab2BGR" -> <<p[3], p[1], p[2]>>
    [] code = "CV_BGR2HSV" -> <<p[3], p[1], p[2]>>
    [] code = "CV_HSV2BGR" -> <<p[2], p[3], p[1]>>
    [] code = "CV_BGR2XYZ" -> <<p[2], p[1], p[3]>>
    [] code = "CV_XYZ2BGR" -> <<p[2], p[1], p[3]>>

\* the explicit sequence a function on 1..n is
AsSeq(f) == f \o <<>>

CvtColor(px, code) == AsSeq([i \in 1..Len(px) |-> CvtPixel(px[i], code)])

\* the exponent e of the sample 2^e
RECURSIVE Log2(_)
Log2(v) == IF v <= 1 THEN 0 ELSE 1 + Log2(v \div 2)

\* convertTo(CV_32FC3) followed by cv::log, on one sample
Log(v, lb) ==
  IF v = 0
    THEN IF lb.logOfZero = "ninf" THEN NInf ELSE LogOfZeroFinite
    ELSE FInt(Log2(v))

\* split: plane c of the log-space image
LogPlane(px, c, lb) == AsSeq([i \in 1..Len(px) |-> Log(px[i][c], lb)])

\* meanStdDev on one plane: the mean and the root of the mean squared
\* difference from it
Mean(plane) == FScale(Rat(1, Len(plane)), FSum(plane))

SqDiff(plane, mean) ==
  AsSeq([i \in 1..Len(plane) |-> FSq(FSub(plane[i], mean))])

StatsAbout(plane, mean) ==
  [avg |-> mean,
   dev |-> FSqrt(FScale(Rat(1, Len(plane)), FSum(SqDiff(plane, mean))))]

MeanStdDev(plane) == StatsAbout(plane, Mean(plane))

RateDivisor == 100

\* line 94
Rate(val) == Rat(val, RateDivisor)

\* srcDevs[c] / dstDevs[c] times (dstComponents[c] - dstAvgs[c]), plus
\* srcAvgs[c]
Rescale(K, plane, srcAvg, dstAvg) ==
  AsSeq([i \in 1..Len(plane) |->
           FAdd(KMul(K, FSub(plane[i], dstAvg)), srcAvg)])

\* lines 99-102
ModifiedComponent(plane, srcAvg, srcDev, dstAvg, dstDev) ==
  Rescale(RootDiv(srcDev, dstDev), plane, srcAvg, dstAvg)

\* lines 105-106
Blend(plane, modified, rate) ==
  AsSeq([i \in 1..Len(plane) |->
           FAdd(FScale(RSub(R1, rate), plane[i]), FScale(rate, modified[i]))])

\* K^2 of a channel, zero where K is not finite
KappaOf(K) == IF K.k = "fin" THEN K.sq ELSE R0

Kappa(srcDev, dstDev) == KappaOf(RootDiv(srcDev, dstDev))

\* sign of x - n for the finite value x = a + b*K and the integer n
SignMinus(x, kap, n) == SignOf(RSub(x.a, RInt(n)), x.b, kap)

\* the integer n, lo <= n < hi, with n <= x < n + 1, for lo <= x < hi
RECURSIVE QFloor(_, _, _, _)
QFloor(x, kap, lo, hi) ==
  IF hi <= lo + 1 THEN lo
  ELSE IF SignMinus(x, kap, (lo + hi) \div 2) >= 0
         THEN QFloor(x, kap, (lo + hi) \div 2, hi)
         ELSE QFloor(x, kap, lo, (lo + hi) \div 2)

\* saturate_cast<uchar> of h - 1/2 rounded to nearest, ties to even, m the
\* floor of h
RoundSaturate(h, kap, m) ==
  IF SignMinus(h, kap, m) = 0 /\ m % 2 = 1
    THEN m - 1
    ELSE IF m > 255 THEN 255 ELSE m

\* the 8-bit value of 2^x, f the floor of x, -1 <= f <= 7
ExpCastIn(x, kap, f, h) ==
  IF f = -1 THEN 1
  ELSE RoundSaturate(h, kap, QFloor(h, kap, 2^f, 2^(f + 1) + 1))

\* 2^f * (1 + x - f) + 1/2
ExpHalfUp(x, f) ==
  FAdd(FScale(RInt(2^f), FAdd(FInt(1 - f), x)), Fin(Rat(1, 2), R0))

ExpCastFloor(x, kap, f) ==
  ExpCastIn(x, kap, f, IF f = -1 THEN x ELSE ExpHalfUp(x, f))

\* cv::exp followed by convertTo(CV_8UC3) on one sample: round to nearest,
\* ties to even, saturated to 0..255; a NaN is converted to 0.  Exact where
\* x is an integer; between two integers the exponential is interpolated
\* linearly.  +Inf does not reach this step (a blended plane is all NaN or
\* all finite).
ExpCast(x, kap) ==
  CASE x.k # "fin" -> 0
    [] SignMinus(x, kap, 8) >= 0 -> 255
    [] SignMinus(x, kap, -1) <= 0 -> 0
    [] OTHER -> ExpCastFloor(x, kap, QFloor(x, kap, -1, 8))

\* one pass of the loop of lines 93-107 on a channel, given the statistics
\* of lines 83-85 for it
BlendComponent(src, dst, dstPlane, rate, modified) ==
  [srcAvg |-> src.avg, srcDev |-> src.dev,
   dstAvg |-> dst.avg, dstDev |-> dst.dev,
   dstPlane |-> dstPlane, rate |-> rate,
   modified |-> modified,
   blended |-> Blend(dstPlane, modified, rate)]

ModifyComponent(src, dst, dstPlane, rate) ==
  BlendComponent(src, dst, dstPlane, rate,
                 ModifiedComponent(dstPlane, src.avg, src.dev, dst.avg, dst.dev))

TransferComponent(srcPlane, dstPlane, val) ==
  ModifyComponent(MeanStdDev(srcPlane), MeanStdDev(dstPlane), dstPlane,
                  Rate(val))

\* lines 110-116 on channel c: exp, convertTo
ExpPlane(t) ==
  AsSeq([i \in 1..Len(t.blended) |->
           ExpCast(t.blended[i], Kappa(t.srcDev, t.dstDev))])

\* merge
Merge(p1, p2, p3) == AsSeq([i \in 1..Len(p1) |-> <<p1[i], p2[i], p3[i]>>])

\* the locals of colorTransfer at line 119 and the image it stores, t the
\* three channels after the loop
Transferred(fwd, bwd, t) ==
  [forwardConversion |-> fwd,
   backwardConversion |-> bwd,
   srcAvgs |-> <<t[1].srcAvg, t[2].srcAvg, t[3].srcAvg>>,
   srcDevs |-> <<t[1].srcDev, t[2].srcDev, t[3].srcDev>>,
   dstAvgs |-> <<t[1].dstAvg, t[2].dstAvg, t[3].dstAvg>>,
   dstDevs |-> <<t[1].dstDev, t[2].dstDev, t[3].dstDev>>,
   dstPlanes |-> <<t[1].dstPlane, t[2].dstPlane, t[3].dstPlane>>,
   rate |-> <<t[1].rate, t[2].rate, t[3].rate>>,
   modifiedComponent |-> <<t[1].modified, t[2].modified, t[3].modified>>,
   dstComponents |-> <<t[1].blended, t[2].blended, t[3].blended>>,
   transfer |->
     Mat3(CvtColor(Merge(ExpPlane(t[1]), ExpPlane(t[2]), ExpPlane(t[3])),
                   bwd))]

\* lines 71-107 on the converted images
TransferSubspace(fwd, bwd, subspaceSrc, subspaceDst, vals, lb) ==
  Transferred(fwd, bwd,
    <<TransferComponent(LogPlane(subspaceSrc, 1, lb),
                        LogPlane(subspaceDst, 1, lb), vals[1]),
      TransferComponent(LogPlane(subspaceSrc, 2, lb),
                        LogPlane(subspaceDst, 2, lb), vals[2]),
      TransferComponent(LogPlane(subspaceSrc, 3, lb),
                        LogPlane(subspaceDst, 3, lb), vals[3])>>)

ColorTransfer(source, dest, mode, vals, lb) ==
  TransferSubspace(ForwardConversion(mode), BackwardConversion(mode),
                   CvtColor(source.pixels, ForwardConversion(mode)),
                   CvtColor(dest.pixels, ForwardConversion(mode)), vals, lb)

NoLocals ==
  [forwardConversion |-> "", backwardConversion |-> "",
   srcAvgs |-> <<>>, srcDevs |-> <<>>, dstAvgs |-> <<>>, dstDevs |-> <<>>,
   dstPlanes |-> <<>>, rate |-> <<>>, modifiedComponent |-> <<>>,
   dstComponents |-> <<>>]

LocalsOf(r) ==
  [forwardConversion |-> r.forwardConversion,
   backwardConversion |-> r.backwardConversion,
   srcAvgs |-> r.srcAvgs, srcDevs |-> r.srcDevs,
   dstAvgs |-> r.dstAvgs, dstDevs |-> r.dstDevs,
   dstPlanes |-> r.dstPlanes, rate |-> r.rate,
   modifiedComponent |-> r.modifiedComponent,
   dstComponents |-> r.dstComponents]

(***************************************************************************)
(* colorTransfer as a step: it reads the globals as the step leaves them   *)
(* and stores images.transfer.  locals keeps what the last invocation      *)
(* computed; invoked says whether the last step invoked it.                *)
(***************************************************************************)
colorTransfer ==
  \E r \in {ColorTransfer(images.source, images.dest, currentMode',
                          trackbars'.componentVals, lib)} :
    /\ images' = [images EXCEPT !.transfer = r.transfer]
    /\ locals' = LocalsOf(r)
    /\ invoked' = TRUE

\* lines 124-129; imshow changes nothing the program reads
updateTransfer == colorTransfer

(***************************************************************************)
(* changeMode, lines 132-193.                                              *)
(***************************************************************************)
Keys == {"r", "R", "l", "L", "h", "H", "x", "X", "ESC", "other"}

\* the colorspace a key selects, "NONE" for a key that selects none
KeyMode(key) ==
  CASE key \in {"r", "R"} -> "RGB"
    [] key \in {"l", "L"} -> "LAB"
    [] key \in {"h", "H"} -> "HSV"
    [] key \in {"x", "X"} -> "XYZ"
    [] OTHER -> "NONE"

ComponentNames(mode) ==
  CASE mode = "RGB" -> <<"Red", "Green", "Blue">>
    [] mode = "LAB" -> <<"Luminance", "Alpha", "Beta">>
    [] mode = "HSV" -> <<"Hue", "Saturation", "Value">>
    [] mode = "XYZ" -> <<"X", "Y", "Z">>
    [] OTHER -> <<"", "", "">>

\* fault variant: the test for the active mode is missing
ModeChanges_NoSameModeTest(key) == KeyMode(key) # "NONE"

\* the early returns of the switch: escape, a key that selects nothing, the
\* key of the active mode
ModeChanges(key) == KeyMode(key) # "NONE" /\ KeyMode(key) # currentMode

ChangeModeReturn(key) == IF key = "ESC" THEN 0 ELSE 1

TrackbarInitial == 100

TrackbarMax == 100

\* fault variant: the sliders keep their positions over a mode change
RefreshedVals_Kept == trackbars.componentVals

\* lines 177-185
RefreshedVals == [i \in Channels |-> TrackbarInitial]

\* keypress is the argument of the call
changeMode(key) ==
  /\ keypress' = key
  /\ IF ModeChanges(key)
       THEN /\ currentMode' = KeyMode(key)
            /\ trackbars' = [componentNames |-> ComponentNames(KeyMode(key)),
                             componentVals |-> RefreshedVals]
            /\ updateTransfer
       ELSE /\ UNCHANGED <<currentMode, trackbars, images, locals>>
            /\ invoked' = FALSE

(***************************************************************************)
(* The inputs of the model.                                                *)
(***************************************************************************)
MaxPixels == 2

\* the pixel sequences imread can deliver as colour images: a uniform
\* image, one whose three channels all vary, one with a zero sample, a
\* single pixel, and one whose channels have irrational deviations
Catalog ==
  << << <<1, 2, 4>>, <<1, 2, 4>> >>,
     << <<1, 2, 4>>, <<4, 8, 2>> >>,
     << <<2, 4, 1>>, <<8, 0, 4>> >>,
     << <<4, 1, 2>> >>,
     << <<1, 2, 4>>, <<4, 8, 2>>, <<16, 2, 1>> >> >>

ColorImages ==
  {Mat3(Catalog[j]) : j \in {i \in 1..Len(Catalog) : Len(Catalog[i]) <= MaxPixels}}

GrayImage == [channels |-> 1, pixels |-> <<<<2>>>>]

\* what imread can return
Loadable == ColorImages \cup {EmptyMat, GrayImage}

\* slider positions: the two ends of the slider
Positions == {0, TrackbarMax}

\* values of componentVals a caller of colorTransfer can have stored
StoredVals == {-50, 0, 50, 100, 150}

Argcs == 1..5

(***************************************************************************)
(* main, lines 195-266.                                                    *)
(***************************************************************************)
Init ==
  /\ pc = "start"
  /\ argc = 0
  /\ images = [source |-> EmptyMat, dest |-> EmptyMat, transfer |-> EmptyMat]
  /\ trackbars = [componentNames |-> <<"", "", "">>,
                  componentVals |-> <<0, 0, 0>>]
  /\ currentMode = "NONE"
  /\ keypress = ""
  /\ invoked = FALSE
  /\ locals = NoLocals
  /\ lib \in Libs
  /\ outputFile = EmptyMat
  /\ exitStatus = -1

\* fault variant: a fifth argument is accepted
UsageError_NoUpperLimit(n) == n < 3

\* line 196
UsageError(n) == n < 3 \/ n > 4

\* lines 196-207
MainArgs ==
  /\ pc = "start"
  /\ \E n \in Argcs :
       /\ argc' = n
       /\ IF UsageError(n)
            THEN pc' = "exit" /\ exitStatus' = 1
            ELSE pc' = "imread" /\ UNCHANGED exitStatus
  /\ UNCHANGED <<images, trackbars, currentMode, keypress, invoked, locals,
                 lib, outputFile>>

\* lines 210-217
MainRead ==
  /\ pc = "imread"
  /\ \E s \in Loadable, d \in Loadable :
       /\ images' = [images EXCEPT !.source = s, !.dest = d]
       /\ IF s = EmptyMat \/ d = EmptyMat
            THEN pc' = "exit" /\ exitStatus' = 1
            ELSE IF s.channels < 3 \/ d.channels < 3
                   THEN pc' = "exit" /\ exitStatus' = 1
                   ELSE pc' = "initialMode" /\ UNCHANGED exitStatus
  /\ UNCHANGED <<argc, trackbars, currentMode, keypress, invoked, locals,
                 lib, outputFile>>

\* line 255
MainInitialMode ==
  /\ pc = "initialMode"
  /\ changeMode("l")
  /\ pc' = "waitKey"
  /\ UNCHANGED <<argc, lib, outputFile, exitStatus>>

\* line 258, a key arrives
MainKey ==
  /\ pc = "waitKey"
  /\ \E key \in Keys :
       /\ changeMode(key)
       /\ pc' = IF ChangeModeReturn(key) = 0 THEN "cleanup" ELSE "waitKey"
  /\ UNCHANGED <<argc, lib, outputFile, exitStatus>>

\* fault variant: the slider stores its position and no callback runs
TrackbarMoved_NoCallback ==
  /\ pc = "waitKey"
  /\ \E i \in Channels, v \in Positions :
       /\ v # trackbars.componentVals[i]
       /\ trackbars' = [trackbars EXCEPT !.componentVals[i] = v]
  /\ keypress' = ""
  /\ invoked' = FALSE
  /\ UNCHANGED <<pc, argc, images, currentMode, locals, lib, outputFile,
                 exitStatus>>

\* line 258, a slider moves while waitKey dispatches events: OpenCV stores
\* the position through the value pointer and calls the callback (179-184);
\* no call of changeMode is in progress
TrackbarMoved ==
  /\ pc = "waitKey"
  /\ \E i \in Channels, v \in Positions :
       /\ v # trackbars.componentVals[i]
       /\ trackbars' = [trackbars EXCEPT !.componentVals[i] = v]
  /\ UNCHANGED currentMode
  /\ updateTransfer
  /\ keypress' = ""
  /\ UNCHANGED <<pc, argc, lib, outputFile, exitStatus>>

\* lines 261-265
MainCleanup ==
  /\ pc = "cleanup"
  /\ outputFile' = IF argc = 4 THEN images.transfer ELSE outputFile
  /\ exitStatus' = 0
  /\ pc' = "done"
  /\ keypress' = ""
  /\ invoked' = FALSE
  /\ UNCHANGED <<argc, images, trackbars, currentMode, locals, lib>>

Next ==
  \/ MainArgs
  \/ MainRead
  \/ MainInitialMode
  \/ MainKey
  \/ TrackbarMoved
  \/ MainCleanup

Spec == Init /\ [][Next]_vars

(***************************************************************************)
(* colorTransfer on its own: any two colour images, any value of           *)
(* currentMode and any stored componentVals, then one call.                *)
(***************************************************************************)
InitFn ==
  /\ pc = "fn_call"
  /\ argc = 0
  /\ images \in [source : ColorImages, dest : ColorImages,
                 transfer : {EmptyMat}]
  /\ currentMode \in Modes
  /\ trackbars \in [componentNames : {ComponentNames(currentMode)},
                    componentVals : [Channels -> StoredVals]]
  /\ keypress = ""
  /\ invoked = FALSE
  /\ locals = NoLocals
  /\ lib \in Libs
  /\ outputFile = EmptyMat
  /\ exitStatus = -1

CallColorTransfer ==
  /\ pc = "fn_call"
  /\ UNCHANGED <<currentMode, trackbars>>
  /\ colorTransfer
  /\ pc' = "fn_ret"
  /\ UNCHANGED <<argc, keypress, lib, outputFile, exitStatus>>

NextFn == CallColorTransfer

SpecFn == InitFn /\ [][NextFn]_vars

(***************************************************************************)
(* Properties.  The tables and measures below are written from the         *)
(* statements they check, not from the program.                            *)
(***************************************************************************)
Colorspaces == {"LAB", "RGB", "HSV", "XYZ"}

\* a stored value that is a ratio in [0,1]
InRange(v) == 0 <= v /\ v <= 100

\* the scale K^2 of channel c in the last invocation
ChannelKappa(c) == Kappa(locals.srcDevs[c], locals.dstDevs[c])

\* square of a value a + b*K
FSqK(d, kap) ==
  CASE d.k = "nan" -> NaN
    [] d.k = "fin" ->
         Fin(RAdd(RMul(d.a, d.a), RMul(RMul(d.b, d.b), kap)),
             RMul(RInt(2), RMul(d.a, d.b)))
    [] OTHER -> PInf

SqDiffK(plane, mean, kap) ==
  AsSeq([i \in 1..Len(plane) |-> FSqK(FSub(plane[i], mean), kap)])

\* the variance of a plane of values a + b*K
Variance(plane, kap) ==
  FScale(Rat(1, Len(plane)), FSum(SqDiffK(plane, Mean(plane), kap)))

\* channel c of the result has the mean and the deviation of the reference
FullyTransferred(c) ==
  /\ FEq(Mean(locals.dstComponents[c]), locals.srcAvgs[c], ChannelKappa(c))
  /\ locals.srcDevs[c].k = "fin"
  /\ FEq(Variance(locals.dstComponents[c], ChannelKappa(c)),
         Fin(locals.srcDevs[c].sq, R0), ChannelKappa(c))

IsUniform(img) == \A i \in 1..Len(img.pixels) : img.pixels[i] = img.pixels[1]

\* C1: with all three componentVals at 100 and any of the four colorspaces,
\* each blended log-space plane has the mean srcAvgs[c] and the standard
\* deviation srcDevs[c] of the reference, and a uniform target with a
\* uniform reference gives the uniform image of the reference's values.
C1_FullTransferMatchesReference ==
  (/\ pc = "fn_ret"
   /\ currentMode \in Colorspaces
   /\ \A c \in Channels : trackbars.componentVals[c] = 100)
  => /\ \A c \in Channels : FullyTransferred(c)
     /\ (IsUniform(images.source) /\ IsUniform(images.dest))
          => \A i \in 1..Len(images.transfer.pixels) :
               images.transfer.pixels[i] = images.source.pixels[1]

\* C2: with all three componentVals at 0 each blended log-space plane
\* equals the target's plane sample for sample, zero samples included, and
\* the result is the target.
C2_ZeroRatioReproducesTarget ==
  (pc = "fn_ret" /\ \A c \in Channels : trackbars.componentVals[c] = 0)
  => /\ \A c \in Channels : \A i \in 1..Len(locals.dstPlanes[c]) :
          FEq(locals.dstComponents[c][i], locals.dstPlanes[c][i],
              ChannelKappa(c))
     /\ images.transfer = images.dest

\* C3: where a target channel is flat (dstDevs[c] = 0) the modified channel
\* is the finite value srcAvgs[c] and, for every ratio in [0,1], every
\* sample of the resulting channel is finite.
C3_FlatChannelGuarded ==
  pc = "fn_ret"
  => \A c \in Channels :
       (/\ locals.dstDevs[c] = Root(R0)
        /\ IsFinite(locals.srcAvgs[c])
        /\ InRange(trackbars.componentVals[c]))
       => \A i \in 1..Len(locals.dstPlanes[c]) :
            /\ FEq(locals.modifiedComponent[c][i], locals.srcAvgs[c],
                   ChannelKappa(c))
            /\ IsFinite(locals.dstComponents[c][i])

\* x lies between p and q
Between(x, p, q, kap) ==
  \/ FLe(p, x, kap) /\ FLe(x, q, kap)
  \/ FLe(q, x, kap) /\ FLe(x, p, kap)

\* the blend of channel c of the last invocation at the stored value v
BlendAt(c, v) ==
  Blend(locals.dstPlanes[c], locals.modifiedComponent[c], Rate(v))

\* the blended planes with the stored value of channel c replaced by v
WithRatio(c, v) ==
  ColorTransfer(images.source, images.dest, currentMode,
                [trackbars.componentVals EXCEPT ![c] = v], lib).dstComponents

\* C4: for ratios in [0,1] every blended sample lies between the target's
\* sample and the fully transferred one, a larger ratio moves it towards
\* the fully transferred one, and the ratio of one channel leaves the
\* blended planes of the other two as they are.
C4_BlendBetweenAndIndependent ==
  (pc = "fn_ret" /\ \A c \in Channels : InRange(trackbars.componentVals[c]))
  => \A c \in Channels :
       /\ \A i \in 1..Len(locals.dstPlanes[c]) :
            Between(locals.dstComponents[c][i], locals.dstPlanes[c][i],
                    locals.modifiedComponent[c][i], ChannelKappa(c))
       /\ \A v \in {w \in StoredVals : InRange(w)} :
            /\ v >= trackbars.componentVals[c]
                 => \A i \in 1..Len(locals.dstPlanes[c]) :
                      Between(BlendAt(c, v)[i], locals.dstComponents[c][i],
                              locals.modifiedComponent[c][i], ChannelKappa(c))
            /\ \A d \in Channels \ {c} :
                 WithRatio(c, v)[d] = locals.dstComponents[d]

\* the label triple of each colorspace
LabelsOf(mode) ==
  CASE mode = "LAB" -> <<"Luminance", "Alpha", "Beta">>
    [] mode = "RGB" -> <<"Red", "Green", "Blue">>
    [] mode = "HSV" -> <<"Hue", "Saturation", "Value">>
    [] mode = "XYZ" -> <<"X", "Y", "Z">>

\* the step is a call of changeMode from main
KeyStep == pc \in {"initialMode", "waitKey"} /\ keypress' # ""

\* C5: a key that selects a colorspace other than the active one leaves
\* currentMode at that colorspace, all three componentVals at 100 and
\* componentNames at its labels; after startup the labels always match
\* currentMode.
C5_ModeSwitchResets ==
  /\ [](pc \in {"waitKey", "cleanup", "done"}
         => trackbars.componentNames = LabelsOf(currentMode))
  /\ [][(KeyStep /\ KeyMode(keypress') \in Colorspaces \ {currentMode})
         => /\ currentMode' = KeyMode(keypress')
            /\ \A c \in Channels : trackbars'.componentVals[c] = 100
            /\ trackbars'.componentNames = LabelsOf(KeyMode(keypress'))]_vars

\* the key H has just switched the program to HSV
C5_Witness ==
  /\ pc = "waitKey"
  /\ keypress = "H"
  /\ invoked
  /\ currentMode = "HSV"
  /\ trackbars.componentNames = <<"Hue", "Saturation", "Value">>
  /\ trackbars.componentVals = <<100, 100, 100>>

\* C6: the key of the active colorspace changes nothing: currentMode,
\* componentVals, componentNames and images.transfer stay, colorTransfer is
\* not invoked, and the key loop goes on.
C6_SameModeKeyIsNoOp ==
  [][(KeyStep /\ KeyMode(keypress') = currentMode)
      => /\ currentMode' = currentMode
         /\ trackbars' = trackbars
         /\ images' = images
         /\ locals' = locals
         /\ ~invoked'
         /\ pc' = "waitKey"]_vars

\* the key of the active mode has just been handled with sliders off 100
C6_Witness ==
  /\ pc = "waitKey"
  /\ keypress = "x"
  /\ currentMode = "XYZ"
  /\ ~invoked
  /\ trackbars.componentVals = <<0, 100, 0>>

\* colorTransfer on the loaded images with the parameters now in force
CurrentTransfer ==
  ColorTransfer(images.source, images.dest, currentMode,
                trackbars.componentVals, lib).transfer

\* C7: whenever the program waits for a key, images.transfer is
\* colorTransfer of the loaded images for the current currentMode and
\* componentVals and has been computed; the loaded images never change;
\* the file written on ESC holds that transfer.
C7_TransferIsCurrent ==
  /\ [](pc \in {"waitKey", "cleanup"}
         => images.transfer = CurrentTransfer /\ images.transfer # EmptyMat)
  /\ [](pc = "done"
         => IF argc = 4 THEN outputFile = CurrentTransfer
                        ELSE outputFile = EmptyMat)
  /\ [][pc \notin {"start", "imread"}
         => images'.source = images.source /\ images'.dest = images.dest]_vars

\* an output file written after mode changes and slider moves
C7_Witness ==
  /\ pc = "done"
  /\ argc = 4
  /\ currentMode = "RGB"
  /\ trackbars.componentVals = <<100, 0, 100>>
  /\ images.source.pixels = Catalog[2]
  /\ images.dest.pixels = Catalog[3]
  /\ outputFile = images.transfer
  /\ outputFile # EmptyMat

\* the nearest value of 0..100
Clamped(v) == IF v < 0 THEN 0 ELSE IF v > 100 THEN 100 ELSE v

PairOf(mode) ==
  CASE mode \in {"LAB", "NONE"} -> <<"CV_BGR2Lab", "CV_Lab2BGR">>
    [] mode = "RGB" -> <<"CV_BGR2RGB", "CV_RGB2BGR">>
    [] mode = "HSV" -> <<"CV_BGR2HSV", "CV_HSV2BGR">>
    [] mode = "XYZ" -> <<"CV_BGR2XYZ", "CV_XYZ2BGR">>

\* C9: for every currentMode the forward and backward conversions are the
\* pair of that colorspace, the LAB pair for NONE; the backward one undoes
\* the forward one; source and dest are both converted by the forward one.
C9_ConversionPair ==
  pc = "fn_ret"
  => /\ <<locals.forwardConversion, locals.backwardConversion>>
          = PairOf(currentMode)
     /\ \A img \in {images.source, images.dest} :
          CvtColor(CvtColor(img.pixels, locals.forwardConversion),
                   locals.backwardConversion) = img.pixels
     /\ \A c \in Channels :
          /\ locals.dstPlanes[c]
               = LogPlane(CvtColor(images.dest.pixels,
                                   PairOf(currentMode)[1]), c, lib)
          /\ locals.srcAvgs[c]
               = Mean(LogPlane(CvtColor(images.source.pixels,
                                        PairOf(currentMode)[1]), c, lib))

\* colorTransfer has returned from a call with the mode unset
C9_Witness ==
  /\ pc = "fn_ret"
  /\ currentMode = "NONE"
  /\ locals.forwardConversion = "CV_BGR2Lab"
  /\ locals.backwardConversion = "CV_Lab2BGR"
  /\ images.source # images.dest

\* the arguments or the images main has read are not acceptable
BadInput ==
  \/ argc < 3
  \/ argc > 4
  \/ /\ pc # "imread"
     /\ \/ images.source.pixels = <<>>
        \/ images.dest.pixels = <<>>
        \/ images.source.channels < 3
        \/ images.dest.channels < 3

\* C10: on a wrong argument count, an empty image or an image of fewer than
\* 3 channels main exits with a non-zero status; colorTransfer has not been
\* invoked, currentMode is NONE and no output file is written.
C10_BadInputExits ==
  /\ (pc # "start" /\ BadInput)
       => /\ pc = "exit"
          /\ exitStatus > 0
          /\ currentMode = "NONE"
          /\ ~invoked
          /\ locals = NoLocals
          /\ images.transfer = EmptyMat
          /\ outputFile = EmptyMat
  /\ pc = "exit" => BadInput

\* main has exited on a target of one channel, an output path given
C10_Witness ==
  /\ pc = "exit"
  /\ argc = 4
  /\ images.source \in ColorImages
  /\ images.dest = GrayImage
  /\ exitStatus = 1
  /\ outputFile = EmptyMat

=============================================================================
